---- MODULE Spec2Model ----
(***************************************************************************)
(* Ingestion pipeline (scrape -> chunk -> embed -> index) and the answer   *)
(* engine of the Stripe customer support agent, as state machines over the *)
(* document store, the chunk store and the vector index.                   *)
(***************************************************************************)
EXTENDS Integers, Sequences, FiniteSets, TLC

\* ------------------------------------------------------------------------
\* Bounds
\* ------------------------------------------------------------------------
MaxChunks == 2      \* rows the chunk store may hold in the embedding model
MaxDocs == 2        \* rows the document store may hold
MaxSegs == 2        \* most text chunks the splitter returns for one document
MaxRows == 3        \* rows the chunk store may hold in the chunking model
NumChunkers == 2    \* overlapping chunkDocument / chunkAllPending requests
NumScrapers == 2    \* overlapping scrapeURL / scrapeURLs requests
MaxBatch == 2       \* longest URL list passed to scrapeURLs
MaxStored == 2      \* chunk rows in the store when queries are answered
MaxTopK == 2        \* largest topK passed to processQuery
MaxScore == 2       \* similarity scores and minScore range over 0..MaxScore
MaxLimit == 2       \* largest `limit` passed to processAllPending
NumRuns == 2        \* overlapping processAllPending requests
NumHandlers == 2    \* overlapping /query-mcp and /stream requests
MaxSessions == 2    \* rows the conversations table may hold
MaxMessages == 12   \* rows the messages table may hold
InitTurns == 10     \* messages of the session the chat routes start with
MaxFeedbackId == 1  \* largest messageId passed to POST /feedback
MaxLaunches == 3    \* browsers launched over the life of the scraper service
MaxPages == 2       \* pages open in one browser at a time
MaxTexts == 12      \* texts handed to one embedTexts call
MaxChunkId == 101   \* largest chunk id whose vector id is formed and parsed

NULL == "null"

VARIABLES
  chunks,      \* chunked_documents table: sequence of rows, id = position
  vectors,     \* Pinecone index: set of vector ids holding a record
  run,         \* per request: state of one processAllPending call
  docs,        \* raw_documents table: sequence of rows, id = position
  cp,          \* per request: state of one chunkDocument / chunkAllPending call
  sp,          \* per request: state of one scrapeURL / scrapeURLs call
  q,           \* state of one processQuery call
  mcp,         \* ChatServiceMCP.mcpClient (set or not) and mcpConnected
  messages,    \* messages table: sequence of rows, id = position
  convs,       \* conversations table: sequence of rows, id = position
  hp,          \* per request: state of one /query-mcp or /stream handler
  cli,         \* one run of scripts/pipeline.js: command, position, exit code
  ext,         \* one operation seen as its chain of awaited external calls
  vid,         \* two chunk ids, the index records written for them, one hit
  br,          \* ScraperService.browser and the calls that use it
  et           \* one embedTexts call: its loop, its embedText calls, its result

vars == <<chunks, vectors, run, docs, cp, sp, q, mcp, messages, convs, hp, cli,
          ext, vid, br, et>>

\* the conversation ledger and the chat routes' requests
chatVars == <<messages, convs, hp>>
\* the processes around the services: the pipeline script, and an operation
\* waiting on external services
procVars == <<cli, ext, vid, br, et>>
\* what the embedding stage never touches
nonEmbedVars == <<docs, cp, sp, q, mcp, chatVars, procVars>>
\* what the chunking stage never touches
nonChunkVars == <<vectors, run, sp, q, mcp, chatVars, procVars>>
\* what the scraping stage never touches
nonScrapeVars == <<chunks, vectors, run, cp, q, mcp, chatVars, procVars>>
\* what the answer engine never touches
nonQueryVars == <<chunks, vectors, run, docs, cp, sp, chatVars, procVars>>
\* what the chat routes never touch
nonChatVars == <<chunks, vectors, run, docs, cp, sp, q, mcp, procVars>>
\* what the pipeline script's own control flow never touches
nonCliVars == <<chunks, vectors, run, docs, cp, sp, q, mcp, chatVars, ext, vid, br, et>>
\* what waiting on an external call never touches
nonExtVars == <<chunks, vectors, run, docs, cp, sp, q, mcp, chatVars, cli, vid, br, et>>
\* what forming and parsing vector ids never touches
nonVidVars == <<chunks, vectors, run, docs, cp, sp, q, mcp, chatVars, cli, ext, br, et>>
\* what the rendering engine's life cycle never touches
nonBrVars == <<chunks, vectors, run, docs, cp, sp, q, mcp, chatVars, cli, ext, vid, et>>
\* what an embedTexts call never touches
nonEtVars == <<chunks, vectors, run, docs, cp, sp, q, mcp, chatVars, cli, ext, vid, br>>

Runs == 1..NumRuns
Chunkers == 1..NumChunkers
Scrapers == 1..NumScrapers
Handlers == 1..NumHandlers

Min(a, b) == IF a < b THEN a ELSE b

\* ------------------------------------------------------------------------
\* Chunk store (ChunkedDocument model)
\* ------------------------------------------------------------------------

\* strings are sequences of one-character strings
DigitChars == <<"0", "1", "2", "3", "4", "5", "6", "7", "8", "9">>

\* the literal "chunk-"
ChunkPrefix == <<"c", "h", "u", "n", "k", "-">>

\* `${n}` for a non-negative integer: its decimal digits
RECURSIVE NumberToString(_)
NumberToString(n) ==
  IF n < 10 THEN <<DigitChars[n + 1]>>
  ELSE NumberToString(n \div 10) \o <<DigitChars[(n % 10) + 1]>>

\* a vector id built from the last digit of the chunk id only
VectorIdOfLastDigit(chunkId) == ChunkPrefix \o <<DigitChars[(chunkId % 10) + 1]>>

\* `chunk-${chunkId}`
VectorId(chunkId) == ChunkPrefix \o NumberToString(chunkId)

\* String.prototype.replace(pat, "") with a string pattern: the first
\* occurrence of pat is removed, a string without pat comes back unchanged
ReplaceFirst(s, pat) ==
  LET at == {i \in 1..(Len(s) - Len(pat) + 1) :
               SubSeq(s, i, i + Len(pat) - 1) = pat} IN
  IF at = {} THEN s
  ELSE LET i == CHOOSE j \in at : \A k \in at : j <= k IN
       SubSeq(s, 1, i - 1) \o SubSeq(s, i + Len(pat), Len(s))

\* what parseInt returns for a string that does not start with a digit; as
\* a row id it matches no row
NaN == -1

\* parseInt(s): the number written by the leading decimal digits of s
RECURSIVE ParseDigits(_, _)
ParseDigits(s, acc) ==
  IF s = <<>> \/ (\A d \in 1..10 : DigitChars[d] # Head(s)) THEN acc
  ELSE ParseDigits(Tail(s),
                   10 * acc + (CHOOSE d \in 0..9 : DigitChars[d + 1] = Head(s)))

parseInt(s) ==
  IF s = <<>> \/ (\A d \in 1..10 : DigitChars[d] # Head(s)) THEN NaN
  ELSE ParseDigits(s, 0)

\* ChunkedDocument.create: a new row, embeddingStatus 'pending', no vectorId
ChunkedDocumentCreate(store, documentId, index) ==
  Append(store, [rawDocumentId |-> documentId, chunkIndex |-> index,
                 embeddingStatus |-> "pending", vectorId |-> NULL])

\* ids of the rows whose embeddingStatus is 'pending', chunked_at ascending
PendingIds(store) ==
  SelectSeq([c \in 1..Len(store) |-> c],
            LAMBDA c : store[c].embeddingStatus = "pending")

\* a fetch that ignores `limit`
getPendingEmbeddingsUnlimited(store, limit) == PendingIds(store)

\* ChunkedDocument.getPendingEmbeddings(limit)
getPendingEmbeddings(store, limit) ==
  SubSeq(PendingIds(store), 1, Min(limit, Len(PendingIds(store))))

\* a save that writes the status and never the vectorId
SaveChunkStatusOnly(store, c, inst) ==
  [store EXCEPT ![c].embeddingStatus = inst.embeddingStatus]

\* instance.save(): writes the fields changed on the in-memory instance
SaveChunk(store, c, inst) ==
  [store EXCEPT ![c].embeddingStatus = inst.embeddingStatus,
                ![c].vectorId = IF inst.vectorId # NULL THEN inst.vectorId ELSE @]

\* the in-memory instance of a freshly fetched pending row
FreshInstance == [embeddingStatus |-> "pending", vectorId |-> NULL]

\* a processAllPending request that has not started
IdleRun == [pc |-> "idle", batch |-> <<>>, i |-> 0, inst |-> FreshInstance,
            successful |-> 0, failed |-> 0, success |-> FALSE, limit |-> 0,
            dim |-> 0]

\* a chunkDocument / chunkAllPending request that has not started
IdleChunker == [pc |-> "idle", mode |-> "single", queue |-> <<>>, pos |-> 0,
                cur |-> 0, i |-> 0, created |-> <<>>,
                last |-> "none", onProcessed |-> FALSE,
                successful |-> 0, failed |-> 0, success |-> FALSE]

\* a processQuery call that has not started
IdleQuery == [pc |-> "idle", topK |-> 0, minScore |-> 0, useMCP |-> FALSE,
              hits |-> <<>>, filtered |-> <<>>, context |-> <<>>,
              mcpUsed |-> FALSE, llmText |-> NULL, result |-> NULL,
              mcpOutcome |-> "none", failure |-> "none"]

\* ChatServiceMCP as constructed: mcpClient = null, mcpConnected = false
NoMCP == [client |-> FALSE, connected |-> FALSE]

\* a /query-mcp or /stream request that has not arrived
IdleHandler == [pc |-> "idle", route |-> "query-mcp", sessionId |-> 0,
                conv |-> 0, history |-> <<>>, preceding |-> <<>>,
                promptHistory |-> <<>>, userMsg |-> 0, asstMsg |-> 0,
                response |-> "none", useMCP |-> FALSE, status |-> "none"]

\* scripts/pipeline.js before `node scripts/pipeline.js <command>` is run
IdleCli == [pc |-> "idle", command |-> "none", initialized |-> FALSE,
            initError |-> "none",
            scrape |-> "none", chunk |-> "none", embed |-> "none",
            exitCode |-> -1]

\* an operation that has not been called
IdleExt == [pc |-> "idle", op |-> "none", flag |-> FALSE, silent |-> {},
            site |-> "none", success |-> FALSE]

\* no chunk picked, nothing written to the index
IdleVid == [pc |-> "idle", a |-> 0, b |-> 0, index |-> {}, upserted |-> {},
            hit |-> <<>>, back |-> 0]

\* new ScraperService(): this.browser = null (0), no call in progress;
\* launches counts the browsers launched since the last closeBrowser, live
\* holds the launched browsers not yet closed
IdleBr == [browser |-> 0, closing |-> FALSE, total |-> 0, launches |-> 0,
           live |-> {}, pc |-> [p \in Scrapers |-> "idle"],
           mine |-> [p \in Scrapers |-> 0],
           pages |-> [b \in 1..MaxLaunches |-> 0]]

\* no process outside the services is running
\* embedTexts has not been called
IdleEt == [pc |-> "idle", texts |-> <<>>, i |-> 0, calls |-> <<>>,
           embeddings |-> <<>>, result |-> {}]

ProcIdle ==
  cli = IdleCli /\ ext = IdleExt /\ vid = IdleVid /\ br = IdleBr /\ et = IdleEt

\* the ledger before any conversation was started
EmptyLedger ==
  /\ messages = <<>>
  /\ convs = <<>>
  /\ hp = [h \in Handlers |-> IdleHandler]

\* a scrapeURL / scrapeURLs request that has not started
IdleScraper == [pc |-> "idle", queue |-> <<>>, pos |-> 0, usePuppeteer |-> FALSE,
                present |-> FALSE, fetches |-> 0,
                axios |-> "none", puppeteer |-> "none", document |-> 0,
                outcome |-> "none", error |-> "none",
                successful |-> 0, failed |-> 0, skipped |-> 0]

\* ------------------------------------------------------------------------
\* Document store (RawDocument model)
\* ------------------------------------------------------------------------
MaxUrls == 2        \* distinct URLs submitted to the scraper
Urls == 1..MaxUrls

\* RawDocument.create: a new row with status 'pending'; nseg is the number of
\* text chunks the splitter returns for the row's cleanedContent
RawDocumentCreate(store, url, nseg) ==
  Append(store, [url |-> url, status |-> "pending", nseg |-> nseg])

\* RawDocument.getPending(): ids of the 'pending' rows, scraped_at ascending
getPending(store) ==
  SelectSeq([d \in 1..Len(store) |-> d],
            LAMBDA d : store[d].status = "pending")

\* RawDocument.urlExists(url)
urlExists(store, url) ==
  Cardinality({d \in 1..Len(store) : store[d].url = url}) > 0

\* ------------------------------------------------------------------------
\* ScraperService.scrapeURL / scrapeURLs
\* ------------------------------------------------------------------------
\* URL 0 stands for a string that is not a URL (fails the isUrl validation)
Malformed == 0
SubmittedUrls == Urls \cup {Malformed}

\* validate: { isUrl: true } on RawDocument.url
isUrl(u) == u # Malformed

\* RawDocument.url declared without `unique: true`
UniqueUrlNotEnforced(store, url) == TRUE

\* unique: true on RawDocument.url: the insert is accepted only if no row
\* holds the URL
UniqueUrlAccepts(store, url) == ~urlExists(store, url)

\* number of text chunks the page served at URL u splits into
PageSegs(u) == u % (MaxSegs + 1)

\* URL lists of length 1..MaxBatch
UrlLists == UNION {[1..n -> SubmittedUrls] : n \in 1..MaxBatch}

CurUrl(p) == sp[p].queue[sp[p].pos]

\* scrapeURL is entered for position `pos` of the list
EnterItem(rec, pos) ==
  [rec EXCEPT !.pos = pos, !.pc = "check",
              !.present = urlExists(docs, rec.queue[pos]),
              !.fetches = 0,
              !.axios = "none", !.puppeteer = "none", !.document = 0,
              !.outcome = "none", !.error = "none"]

\* scrapeURL has returned: "success", "exists" (success=false, 'URL already
\* exists') or "failed" (success=false, error); scrapeURLs files the URL under
\* successful, skipped or failed and goes on with the next one
\* a scrapeURLs that files a URL that already exists under no list
FinishItemDropsSkipped(rec, outcome, error) ==
  [rec EXCEPT !.pc = "returned", !.outcome = outcome, !.error = error,
              !.successful = IF outcome = "success" THEN @ + 1 ELSE @,
              !.failed = IF outcome = "failed" THEN @ + 1 ELSE @]

FinishItem(rec, outcome, error) ==
  [rec EXCEPT !.pc = "returned", !.outcome = outcome, !.error = error,
              !.successful = IF outcome = "success" THEN @ + 1 ELSE @,
              !.skipped = IF outcome = "exists" THEN @ + 1 ELSE @,
              !.failed = IF outcome = "failed" THEN @ + 1 ELSE @]

\* POST /scrape -> scrapeURL(url, usePuppeteer);
\* POST /scrape/batch -> scrapeURLs(urls, usePuppeteer)
CallScrape(p) ==
  /\ sp[p].pc = "idle"
  /\ \E urls \in UrlLists, usePuppeteer \in BOOLEAN :
       sp' = [sp EXCEPT ![p] =
                EnterItem([IdleScraper EXCEPT !.queue = urls,
                                              !.usePuppeteer = usePuppeteer], 1)]
  /\ UNCHANGED <<docs, nonScrapeVars>>

\* a scrapeURL that always starts with the rendering fetch
FirstPathPuppeteer(usePuppeteer) == "puppeteer"

\* scrapeURL: the fetch attempted first
FirstPath(usePuppeteer) == IF usePuppeteer THEN "puppeteer" ELSE "axios"

\* scrapeURL: RawDocument.urlExists(url) and the early return; a URL that is
\* absent is handed to the first fetch, which is in progress from then on
CheckUrlExists(p) ==
  /\ sp[p].pc = "check"
  /\ \E dbOk \in BOOLEAN :
       sp' = [sp EXCEPT ![p] =
                IF ~dbOk THEN FinishItem(@, "failed", "db")
                ELSE IF urlExists(docs, CurUrl(p)) THEN FinishItem(@, "exists", "none")
                ELSE [@ EXCEPT !.pc = FirstPath(sp[p].usePuppeteer)]]
  /\ UNCHANGED <<docs, nonScrapeVars>>

\* scrapeURL: scrapeWithAxios(url) settles; when it throws, the inner catch
\* calls scrapeWithPuppeteer
ScrapeWithAxios(p) ==
  /\ sp[p].pc = "axios"
  /\ \E ok \in BOOLEAN :
       sp' = [sp EXCEPT ![p].fetches = @ + 1,
                        ![p].axios = IF ok THEN "ok" ELSE "failed",
                        ![p].pc = IF ok THEN "create" ELSE "puppeteer"]
  /\ UNCHANGED <<docs, nonScrapeVars>>

\* scrapeURL: scrapeWithPuppeteer(url), in progress while pc = "puppeteer",
\* settles; a throw lands in scrapeURL's catch
ScrapeWithPuppeteer(p) ==
  /\ sp[p].pc = "puppeteer"
  /\ \E ok \in BOOLEAN :
       sp' = [sp EXCEPT ![p] =
                IF ok THEN [@ EXCEPT !.fetches = @ + 1, !.puppeteer = "ok",
                                     !.pc = "create"]
                ELSE FinishItem([@ EXCEPT !.fetches = @ + 1,
                                          !.puppeteer = "failed"],
                                "failed", "fetch")]
  /\ UNCHANGED <<docs, nonScrapeVars>>

\* scrapeURL: RawDocument.create({url, ..., status: 'pending'})
CreateDocument(p) ==
  /\ sp[p].pc = "create"
  /\ LET u == CurUrl(p) IN
     \/ /\ ~isUrl(u)
        /\ docs' = docs
        /\ sp' = [sp EXCEPT ![p] = FinishItem(@, "failed", "validation")]
     \/ /\ isUrl(u) /\ ~UniqueUrlAccepts(docs, u)
        /\ docs' = docs
        /\ sp' = [sp EXCEPT ![p] = FinishItem(@, "failed", "unique")]
     \/ /\ isUrl(u)
        /\ docs' = docs
        /\ sp' = [sp EXCEPT ![p] = FinishItem(@, "failed", "db")]
     \/ /\ isUrl(u) /\ UniqueUrlAccepts(docs, u)
        /\ Len(docs) < MaxDocs
        /\ docs' = RawDocumentCreate(docs, u, PageSegs(u))
        /\ sp' = [sp EXCEPT ![p] =
                    FinishItem([@ EXCEPT !.document = Len(docs) + 1],
                               "success", "none")]
  /\ UNCHANGED nonScrapeVars

\* scrapeURLs: the next URL of the list, or the end of the request
NextUrl(p) ==
  /\ sp[p].pc = "returned"
  /\ sp' = [sp EXCEPT ![p] =
              IF @.pos < Len(@.queue) THEN EnterItem(@, @.pos + 1)
              ELSE [@ EXCEPT !.pc = "done"]]
  /\ UNCHANGED <<docs, nonScrapeVars>>

\* the request is answered; the next request starts from scratch
ScraperReturn(p) ==
  /\ sp[p].pc = "done"
  /\ sp' = [sp EXCEPT ![p] = IdleScraper]
  /\ UNCHANGED <<docs, nonScrapeVars>>

ScrapeInit ==
  /\ docs = <<>>
  /\ chunks = <<>>
  /\ cp = [p \in Chunkers |-> IdleChunker]
  /\ sp = [p \in Scrapers |-> IdleScraper]
  /\ q = IdleQuery
  /\ mcp = NoMCP
  /\ EmptyLedger
  /\ ProcIdle
  /\ vectors = {}
  /\ run = [r \in Runs |-> IdleRun]

ScrapeNext ==
  \/ \E p \in Scrapers : CallScrape(p)
  \/ \E p \in Scrapers : CheckUrlExists(p)
  \/ \E p \in Scrapers : ScrapeWithAxios(p)
  \/ \E p \in Scrapers : ScrapeWithPuppeteer(p)
  \/ \E p \in Scrapers : CreateDocument(p)
  \/ \E p \in Scrapers : NextUrl(p)
  \/ \E p \in Scrapers : ScraperReturn(p)

SpecScrape == ScrapeInit /\ [][ScrapeNext]_vars

\* ------------------------------------------------------------------------
\* ChunkerService.chunkDocument / chunkAllPending
\* ------------------------------------------------------------------------
\* the document chunkDocument(d) is called on exists with status 'processed'
IsProcessed(store, d) == d <= Len(store) /\ store[d].status = "processed"

\* chunkDocument is over with `outcome`: "success", "already" (success=false,
\* 'Already processed'), "failure" (success=false, error) or "rejected" (the
\* catch block itself threw).  Under chunkAllPending the loop goes on, or its
\* catch returns success=false when chunkDocument rejected.
Finish(rec, outcome) ==
  LET r1 == [rec EXCEPT !.last = outcome] IN
  IF outcome = "rejected"
    THEN [r1 EXCEPT !.pc = "done", !.success = FALSE]
  ELSE IF rec.mode = "single"
    THEN [r1 EXCEPT !.pc = "done", !.success = (outcome = "success")]
  ELSE LET r2 == IF outcome = "success"
                   THEN [r1 EXCEPT !.successful = @ + 1]
                   ELSE [r1 EXCEPT !.failed = @ + 1] IN
       IF rec.pos < Len(rec.queue)
         THEN [r2 EXCEPT !.pos = @ + 1, !.cur = rec.queue[rec.pos + 1],
                         !.onProcessed = IsProcessed(docs, rec.queue[rec.pos + 1]),
                         !.pc = "find", !.i = 0, !.created = <<>>]
         ELSE [r2 EXCEPT !.pc = "done", !.success = TRUE]

\* POST /chunk/:documentId -> chunkDocument(documentId)
CallChunkDocument(p) ==
  /\ cp[p].pc = "idle"
  /\ \E d \in 1..MaxDocs :
       cp' = [cp EXCEPT ![p] = [IdleChunker EXCEPT !.pc = "find", !.cur = d,
                                                   !.onProcessed = IsProcessed(docs, d)]]
  /\ UNCHANGED <<docs, chunks, nonChunkVars>>

\* POST /chunk/all -> chunkAllPending(): RawDocument.getPending()
CallChunkAllPending(p) ==
  /\ cp[p].pc = "idle"
  /\ \E dbOk \in BOOLEAN :
       LET pending == getPending(docs) IN
       cp' = [cp EXCEPT ![p] =
                IF ~dbOk
                  THEN [IdleChunker EXCEPT !.mode = "all", !.pc = "done"]
                ELSE IF Len(pending) = 0
                  THEN [IdleChunker EXCEPT !.mode = "all", !.pc = "done",
                                           !.success = TRUE]
                  ELSE [IdleChunker EXCEPT !.mode = "all", !.pc = "find",
                                           !.queue = pending, !.pos = 1,
                                           !.cur = pending[1]]]
  /\ UNCHANGED <<docs, chunks, nonChunkVars>>

\* chunkDocument: RawDocument.findByPk, the 'processed' early return, splitText
FindDocument(p) ==
  /\ cp[p].pc = "find"
  /\ \E dbOk \in BOOLEAN :
       LET d == cp[p].cur IN
       cp' = [cp EXCEPT ![p] =
                IF ~dbOk \/ d > Len(docs)
                  THEN [@ EXCEPT !.pc = "catch"]
                ELSE IF docs[d].status = "processed"
                  THEN Finish(@, "already")
                ELSE IF docs[d].nseg = 0
                  THEN [@ EXCEPT !.pc = "markProcessed"]
                  ELSE [@ EXCEPT !.pc = "create"]]
  /\ UNCHANGED <<docs, chunks, nonChunkVars>>

\* chunkDocument: ChunkedDocument.create for textChunks[i], chunkIndex i
CreateChunkRow(p) ==
  /\ cp[p].pc = "create"
  /\ LET d == cp[p].cur IN
     \/ /\ Len(chunks) < MaxRows
        /\ chunks' = ChunkedDocumentCreate(chunks, d, cp[p].i)
        /\ cp' = [cp EXCEPT ![p].created = Append(@, Len(chunks) + 1),
                            ![p].i = @ + 1,
                            ![p].pc = IF cp[p].i + 1 < docs[d].nseg
                                        THEN "create" ELSE "markProcessed"]
     \/ /\ chunks' = chunks
        /\ cp' = [cp EXCEPT ![p].pc = "catch"]
  /\ UNCHANGED <<docs, nonChunkVars>>

\* chunkDocument: document.markProcessed()
MarkProcessed(p) ==
  /\ cp[p].pc = "markProcessed"
  /\ \E saveOk \in BOOLEAN :
       IF saveOk
         THEN /\ docs' = [docs EXCEPT ![cp[p].cur].status = "processed"]
              /\ cp' = [cp EXCEPT ![p] = Finish(@, "success")]
         ELSE /\ docs' = docs
              /\ cp' = [cp EXCEPT ![p].pc = "catch"]
  /\ UNCHANGED <<chunks, nonChunkVars>>

\* chunkDocument's catch: RawDocument.findByPk(documentId) again
CatchFindDocument(p) ==
  /\ cp[p].pc = "catch"
  /\ \E dbOk \in BOOLEAN :
       cp' = [cp EXCEPT ![p] =
                IF ~dbOk THEN Finish(@, "rejected")
                ELSE IF cp[p].cur > Len(docs) THEN Finish(@, "failure")
                ELSE [@ EXCEPT !.pc = "markFailed"]]
  /\ UNCHANGED <<docs, chunks, nonChunkVars>>

\* chunkDocument's catch: document.markFailed()
DocMarkFailed(p) ==
  /\ cp[p].pc = "markFailed"
  /\ \E saveOk \in BOOLEAN :
       IF saveOk
         THEN /\ docs' = [docs EXCEPT ![cp[p].cur].status = "failed"]
              /\ cp' = [cp EXCEPT ![p] = Finish(@, "failure")]
         ELSE /\ docs' = docs
              /\ cp' = [cp EXCEPT ![p] = Finish(@, "rejected")]
  /\ UNCHANGED <<chunks, nonChunkVars>>

\* the request is answered; the next request starts from scratch
ChunkerReturn(p) ==
  /\ cp[p].pc = "done"
  /\ cp' = [cp EXCEPT ![p] = IdleChunker]
  /\ UNCHANGED <<docs, chunks, nonChunkVars>>

\* the scraper stores a new document (RawDocument.create in scrapeURL)
ScrapeDocument ==
  /\ Len(docs) < MaxDocs
  /\ \E n \in 0..MaxSegs :
       docs' = RawDocumentCreate(docs, Len(docs) + 1, n)
  /\ UNCHANGED <<chunks, cp, nonChunkVars>>

ChunkInit ==
  /\ docs = <<>>
  /\ chunks = <<>>
  /\ cp = [p \in Chunkers |-> IdleChunker]
  /\ sp = [p \in Scrapers |-> IdleScraper]
  /\ q = IdleQuery
  /\ mcp = NoMCP
  /\ EmptyLedger
  /\ ProcIdle
  /\ vectors = {}
  /\ run = [r \in Runs |-> IdleRun]

ChunkNext ==
  \/ ScrapeDocument
  \/ \E p \in Chunkers : CallChunkDocument(p)
  \/ \E p \in Chunkers : CallChunkAllPending(p)
  \/ \E p \in Chunkers : FindDocument(p)
  \/ \E p \in Chunkers : CreateChunkRow(p)
  \/ \E p \in Chunkers : MarkProcessed(p)
  \/ \E p \in Chunkers : CatchFindDocument(p)
  \/ \E p \in Chunkers : DocMarkFailed(p)
  \/ \E p \in Chunkers : ChunkerReturn(p)

SpecChunk == ChunkInit /\ [][ChunkNext]_vars

\* ------------------------------------------------------------------------
\* VectorStoreService.processAllPending / processChunk
\* ------------------------------------------------------------------------
CurChunk(r) == run[r].batch[run[r].i]

\* end of one loop iteration: next chunk of the batch, or return the summary
NextItem(rec) ==
  IF rec.i < Len(rec.batch)
    THEN [rec EXCEPT !.i = @ + 1, !.pc = "embed", !.inst = FreshInstance,
                     !.dim = 0]
    ELSE [rec EXCEPT !.pc = "done", !.success = TRUE]

\* processAllPending(limit): fetch the pending chunks
ProcessAllPending(r) ==
  /\ run[r].pc = "idle"
  /\ \E limit \in 1..MaxLimit, dbOk \in BOOLEAN :
       LET batch == getPendingEmbeddings(chunks, limit) IN
       run' = [run EXCEPT ![r] =
                 IF ~dbOk THEN [@ EXCEPT !.pc = "done", !.success = FALSE]
                 ELSE IF Len(batch) = 0
                   THEN [@ EXCEPT !.pc = "done", !.success = TRUE]
                   ELSE [@ EXCEPT !.pc = "embed", !.batch = batch, !.i = 1,
                                  !.limit = limit]]
  /\ UNCHANGED <<chunks, vectors, nonEmbedVars>>

\* the length embedText requires of result.embedding.values
EmbeddingDimension == 768

\* an embedText that accepts an embedding of any length
DimensionUnchecked(len) == TRUE

\* embedText: `embedding.length !== 768` throws
DimensionOk(len) == len = EmbeddingDimension

\* processChunk: embedderService.embedText(chunk.chunkText); embedContent
\* rejects (len 0) or returns an embedding of some length, and embedText
\* throws unless the length is the expected one
EmbedText(r) ==
  /\ run[r].pc = "embed"
  /\ \E len \in {0, EmbeddingDimension - 1, EmbeddingDimension,
                  EmbeddingDimension + 1} :
       run' = [run EXCEPT ![r].dim = len,
                          ![r].pc = IF len # 0 /\ DimensionOk(len)
                                      THEN "upsert" ELSE "markFailed"]
  /\ UNCHANGED <<chunks, vectors, nonEmbedVars>>

\* what processChunk does with an upsertVector result that reports failure
UpsertFailed(rec) == NextItem([rec EXCEPT !.failed = @ + 1])

\* processChunk: this.upsertVector(chunk.id, embedding, metadata); a failed
\* upsert is caught inside upsertVector and returned as {success: false}
UpsertVector(r) ==
  /\ run[r].pc = "upsert"
  /\ \E ok \in BOOLEAN :
       IF ok
         THEN /\ vectors' = vectors \cup {VectorId(CurChunk(r))}
              /\ run' = [run EXCEPT ![r].pc = "markEmbedded"]
         ELSE /\ vectors' = vectors
              /\ run' = [run EXCEPT ![r] = UpsertFailed(@)]
  /\ UNCHANGED <<chunks, nonEmbedVars>>

\* processChunk: chunk.markEmbedded(result.vectorId)
MarkEmbedded(r) ==
  /\ run[r].pc = "markEmbedded"
  /\ LET inst == [embeddingStatus |-> "embedded",
                  vectorId |-> VectorId(CurChunk(r))] IN
     \E saveOk \in BOOLEAN :
       IF saveOk
         THEN /\ chunks' = SaveChunk(chunks, CurChunk(r), inst)
              /\ run' = [run EXCEPT ![r] =
                           NextItem([@ EXCEPT !.inst = inst, !.successful = @ + 1])]
         ELSE /\ chunks' = chunks
              /\ run' = [run EXCEPT ![r].inst = inst, ![r].pc = "markFailed"]
  /\ UNCHANGED <<vectors, nonEmbedVars>>

\* processChunk's catch: chunk.markFailed(); a failing save rejects
\* processChunk and lands in processAllPending's catch
MarkFailed(r) ==
  /\ run[r].pc = "markFailed"
  /\ LET inst == [run[r].inst EXCEPT !.embeddingStatus = "failed"] IN
     \E saveOk \in BOOLEAN :
       IF saveOk
         THEN /\ chunks' = SaveChunk(chunks, CurChunk(r), inst)
              /\ run' = [run EXCEPT ![r] =
                           NextItem([@ EXCEPT !.inst = inst, !.failed = @ + 1])]
         ELSE /\ chunks' = chunks
              /\ run' = [run EXCEPT ![r].inst = inst, ![r].pc = "done",
                                    ![r].success = FALSE]
  /\ UNCHANGED <<vectors, nonEmbedVars>>

\* the request is answered; the next request starts from scratch
RunReturn(r) ==
  /\ run[r].pc = "done"
  /\ run' = [run EXCEPT ![r] = IdleRun]
  /\ UNCHANGED <<chunks, vectors, nonEmbedVars>>

\* VectorStoreService.deleteVector(chunkId); a failing deleteOne is caught
\* and leaves the index as it was
DeleteVector ==
  /\ \E c \in 1..Len(chunks), ok \in BOOLEAN :
       vectors' = IF ok THEN vectors \ {VectorId(c)} ELSE vectors
  /\ UNCHANGED <<chunks, run, nonEmbedVars>>

\* VectorStoreService.clearIndex(); a failing deleteAll is caught and leaves
\* the index as it was
ClearIndex ==
  /\ \E ok \in BOOLEAN :
       vectors' = IF ok THEN {} ELSE vectors
  /\ UNCHANGED <<chunks, run, nonEmbedVars>>

\* the chunker persists one more chunk (ChunkedDocument.create)
CreateChunk ==
  /\ Len(chunks) < MaxChunks
  /\ chunks' = ChunkedDocumentCreate(chunks, 1, Len(chunks))
  /\ UNCHANGED <<vectors, run, nonEmbedVars>>

\* the embedding stage starts on an empty chunk store and an empty index,
\* with one scraped document whose chunks the chunker is about to persist
EmbedInit ==
  /\ chunks = <<>>
  /\ vectors = {}
  /\ run = [r \in Runs |-> IdleRun]
  /\ docs = <<[url |-> 1, status |-> "pending", nseg |-> MaxChunks]>>
  /\ cp = [p \in Chunkers |-> IdleChunker]
  /\ sp = [p \in Scrapers |-> IdleScraper]
  /\ q = IdleQuery
  /\ mcp = NoMCP
  /\ EmptyLedger
  /\ ProcIdle

EmbedNext ==
  \/ CreateChunk
  \/ \E r \in Runs : ProcessAllPending(r)
  \/ \E r \in Runs : EmbedText(r)
  \/ \E r \in Runs : UpsertVector(r)
  \/ \E r \in Runs : MarkEmbedded(r)
  \/ \E r \in Runs : MarkFailed(r)
  \/ \E r \in Runs : RunReturn(r)
  \/ DeleteVector
  \/ ClearIndex

SpecEmbed == EmbedInit /\ [][EmbedNext]_vars

\* the embedding stage while the embedding client, the vector index and the
\* store answer every call and nobody deletes from the index
NoErrorNext ==
  \/ CreateChunk
  \/ \E r \in Runs : ProcessAllPending(r) /\ (run'[r].pc = "embed" \/ run'[r].success)
  \/ \E r \in Runs : EmbedText(r) /\ run'[r].pc = "upsert"
  \/ \E r \in Runs : UpsertVector(r) /\ run'[r].pc = "markEmbedded"
  \/ \E r \in Runs : MarkEmbedded(r) /\ run'[r].pc \in {"embed", "done"}
  \/ \E r \in Runs : RunReturn(r)

SpecEmbedNoError == EmbedInit /\ [][NoErrorNext]_vars

\* ------------------------------------------------------------------------
\* ChatServiceMCP.processQuery (answer engine)
\* ------------------------------------------------------------------------
\* the sentence the system prompt tells the model to use when the context
\* does not contain the answer
FallbackSentence ==
  "I apologize, but I don't have enough specific information in my records to answer that accurately. Would you like me to suggest how to contact Stripe's human support team?"

\* the response of processQuery's catch
ApologySentence ==
  "I apologize, but I encountered an error processing your question. Please try again."

\* what buildContext returns for an empty chunk list
NoDocsContext == "No relevant documentation found."

\* texts the language model may produce
LLMTexts == {FallbackSentence, "Here is how to create a payment intent."}

Scores == 0..MaxScore

\* parseInt(r.chunkId.replace("chunk-", ""))
ChunkIdOf(vectorId) == parseInt(ReplaceFirst(vectorId, ChunkPrefix))

\* what index.query may return for a topK: at most topK matches with distinct
\* ids of records held by the index, ranked by descending score
Matches(topK) ==
  {h \in UNION {[1..n -> [chunkId : vectors, score : Scores]] : n \in 0..topK} :
     /\ \A i, j \in 1..Len(h) : i < j =>
          (h[i].chunkId # h[j].chunkId /\ h[i].score >= h[j].score)}

\* getChunksForResults: each search result joined with its chunk row (and the
\* row's document), chunkText null when no row has the id
getChunksForResults(results) ==
  [k \in 1..Len(results) |->
     LET id == ChunkIdOf(results[k].chunkId) IN
     IF id \in 1..Len(chunks)
       THEN [score |-> results[k].score, chunkText |-> <<"text", id>>,
             source |-> chunks[id].rawDocumentId]
       ELSE [score |-> results[k].score, chunkText |-> NULL, source |-> NULL]]

\* the score filter left out
FilterKeepsAll(relevant, minScore) == relevant

\* relevantChunks.filter((chunk) => chunk.score >= minScore)
FilterByScore(relevant, minScore) ==
  SelectSeq(relevant, LAMBDA c : c.score >= minScore)

\* buildContext without its empty-list case
buildContextHeaderOnly(cs) ==
  <<"Relevant documentation from Stripe:">>
  \o [k \in 1..Len(cs) |->
        [n |-> k, source |-> cs[k].source, text |-> cs[k].chunkText]]

\* buildContext(chunks): the fixed sentence for no chunks, else a header and
\* one entry per chunk
buildContext(cs) ==
  IF Len(cs) = 0
    THEN <<NoDocsContext>>
    ELSE <<"Relevant documentation from Stripe:">>
         \o [k \in 1..Len(cs) |->
               [n |-> k, source |-> cs[k].source, text |-> cs[k].chunkText]]

\* calculateAverageScore(chunks): 0 for no chunks, else the quotient
\* sum / length (kept as the pair it is formatted from)
calculateAverageScore(cs) ==
  LET Sum[k \in 0..Len(cs)] == IF k = 0 THEN 0 ELSE Sum[k - 1] + cs[k].score IN
  IF Len(cs) = 0 THEN 0 ELSE <<Sum[Len(cs)], Len(cs)>>

\* the sources list of a successful result
SourcesOf(cs) ==
  [k \in 1..Len(cs) |->
     [title |-> <<"title", cs[k].source>>, score |-> cs[k].score,
      excerpt |-> <<"excerpt", cs[k].chunkText>>]]

\* a processQuery whose catch rethrows: the caller gets no result object
Rethrown ==
  [success |-> FALSE, response |-> NULL, sources |-> NULL,
   chunksUsed |-> NULL, averageScore |-> NULL, mcpUsed |-> NULL]

\* processQuery's catch
FailureResult ==
  [success |-> FALSE, response |-> ApologySentence, sources |-> NULL,
   chunksUsed |-> NULL, averageScore |-> NULL, mcpUsed |-> NULL]

\* POST /query-mcp -> processQuery(query, {topK, minScore, history, useMCP})
CallProcessQuery ==
  /\ q.pc = "idle"
  /\ \E topK \in 1..MaxTopK, minScore \in Scores, useMCP \in BOOLEAN :
       q' = [IdleQuery EXCEPT !.pc = "search", !.topK = topK,
                              !.minScore = minScore, !.useMCP = useMCP]
  /\ UNCHANGED <<mcp, nonQueryVars>>

\* processQuery step 1: vectorStoreService.search(userQuery, topK); search
\* catches a failing embedQuery or index.query and reports success=false,
\* which makes processQuery throw 'Vector search failed' into its catch
Search ==
  /\ q.pc = "search"
  /\ \/ \E f \in {"embedQuery", "indexQuery"} :
          q' = [q EXCEPT !.pc = "done", !.failure = f, !.result = FailureResult]
     \/ \E h \in Matches(q.topK) : q' = [q EXCEPT !.pc = "resolve", !.hits = h]
  /\ UNCHANGED <<mcp, nonQueryVars>>

\* processQuery step 2 and 3: getChunksForResults, the minScore filter and
\* buildContext
ResolveAndFilter ==
  /\ q.pc = "resolve"
  /\ \/ q' = [q EXCEPT !.pc = "done", !.failure = "getChunksForResults",
                       !.result = FailureResult]
     \/ LET filtered == FilterByScore(getChunksForResults(q.hits), q.minScore) IN
        q' = [q EXCEPT !.filtered = filtered,
                       !.context = buildContext(filtered),
                       !.pc = IF q.useMCP /\ mcp.connected THEN "mcp" ELSE "generate"]
  /\ UNCHANGED <<mcp, nonQueryVars>>

\* what the capability provider may do during getMCPContext
MCPOutcomes ==
  {"listThrows", "noTool", "callThrows", "noContent", "emptyText", "text"}

\* a getMCPContext whose catch returns the error message as context
MCPContextLeaksError(outcome) ==
  IF ~(mcp.client /\ mcp.connected) THEN NULL
  ELSE IF outcome = "text" THEN "mcp text"
  ELSE IF outcome \in {"listThrows", "callThrows"} THEN "mcp error"
  ELSE NULL

\* the value getMCPContext returns: null without a connected client, when
\* listTools or callTool throws, when read_file is not offered and when the
\* result has no content; else content[0].text, which processQuery uses only
\* if it is truthy
MCPContextOf(outcome) ==
  IF mcp.client /\ mcp.connected /\ outcome = "text" THEN "mcp text" ELSE NULL

\* processQuery step 3: getMCPContext(userQuery, filteredChunks) and the
\* context extended by a non-empty result
GetMCPContext ==
  /\ q.pc = "mcp"
  /\ \E outcome \in MCPOutcomes :
       LET mcpContext == MCPContextOf(outcome) IN
       q' = [q EXCEPT !.pc = "generate",
                      !.mcpOutcome = outcome,
                      !.mcpUsed = (mcpContext # NULL),
                      !.context = IF mcpContext # NULL
                                    THEN @ \o <<"Additional MCP Context:", mcpContext>>
                                    ELSE @]
  /\ UNCHANGED <<mcp, nonQueryVars>>

\* a processQuery that answers with the fallback sentence itself when no
\* chunk passed the filter
SuccessResultForcedFallback(text, cs, mcpUsed) ==
  [success |-> TRUE,
   response |-> IF Len(cs) = 0 THEN FallbackSentence ELSE text,
   sources |-> SourcesOf(cs), chunksUsed |-> Len(cs),
   averageScore |-> calculateAverageScore(cs), mcpUsed |-> mcpUsed]

\* the result processQuery returns once the model has answered with `text`;
\* building the excerpt of a chunk without text throws into the catch
SuccessResult(text, cs, mcpUsed) ==
  IF \E k \in 1..Len(cs) : cs[k].chunkText = NULL
    THEN FailureResult
    ELSE [success |-> TRUE, response |-> text, sources |-> SourcesOf(cs),
          chunksUsed |-> Len(cs), averageScore |-> calculateAverageScore(cs),
          mcpUsed |-> mcpUsed]

\* processQuery step 4 and 5: generateResponse and the returned object
GenerateResponse ==
  /\ q.pc = "generate"
  /\ \/ q' = [q EXCEPT !.pc = "done", !.failure = "generateContent",
                       !.result = FailureResult]
     \/ \E text \in LLMTexts :
          q' = [q EXCEPT !.pc = "done", !.llmText = text,
                         !.result = SuccessResult(text, q.filtered, q.mcpUsed)]
  /\ UNCHANGED <<mcp, nonQueryVars>>

\* the request is answered; the next query starts from scratch
QueryReturn ==
  /\ q.pc = "done"
  /\ q' = IdleQuery
  /\ UNCHANGED <<mcp, nonQueryVars>>

\* initializeMCP(): the client object is created, then connect and listTools;
\* any throw leaves mcpConnected false
InitializeMCP ==
  /\ q.pc = "idle"
  /\ \E ok \in BOOLEAN : mcp' = [client |-> TRUE, connected |-> ok]
  /\ UNCHANGED <<q, nonQueryVars>>

\* queries are answered over a store of embedded chunks of one processed
\* document and an index that also holds one record whose chunk row is gone
QueryInit ==
  /\ docs = <<[url |-> 1, status |-> "processed", nseg |-> MaxStored]>>
  /\ chunks = [c \in 1..MaxStored |->
                 [rawDocumentId |-> 1, chunkIndex |-> c - 1,
                  embeddingStatus |-> "embedded", vectorId |-> VectorId(c)]]
  /\ vectors = {VectorId(c) : c \in 1..(MaxStored + 1)}
  /\ run = [r \in Runs |-> IdleRun]
  /\ cp = [p \in Chunkers |-> IdleChunker]
  /\ sp = [p \in Scrapers |-> IdleScraper]
  /\ q = IdleQuery
  /\ mcp = NoMCP
  /\ EmptyLedger
  /\ ProcIdle

QueryNext ==
  \/ InitializeMCP
  \/ CallProcessQuery
  \/ Search
  \/ ResolveAndFilter
  \/ GetMCPContext
  \/ GenerateResponse
  \/ QueryReturn

SpecQuery == QueryInit /\ [][QueryNext]_vars

\* ------------------------------------------------------------------------
\* Conversation ledger (Conversation and Message models) and the chat routes
\* ------------------------------------------------------------------------
HistoryLimit == 10    \* conversation.getMessages(10) in the chat routes
PromptTurns == 5      \* conversationHistory.slice(-5) in buildPrompt

\* ids of the messages of conversation `conv`, created_at ascending
MessagesOf(store, conv) ==
  SelectSeq([m \in 1..Len(store) |-> m],
            LAMBDA m : store[m].conversationId = conv)

\* Conversation.prototype.getMessages(limit): order created_at ASC, limit
getMessages(store, conv, limit) ==
  SubSeq(MessagesOf(store, conv), 1, Min(limit, Len(MessagesOf(store, conv))))

\* Array.prototype.slice(-n): the last n entries, or all if there are fewer
SliceLast(s, n) == SubSeq(s, Len(s) - Min(n, Len(s)) + 1, Len(s))

\* Message.create in addMessage: a user turn carries the query and no
\* sources, an assistant turn the response and the result's sources
MessageCreate(store, conv, role) ==
  Append(store, [conversationId |-> conv, role |-> role,
                 content |-> IF role = "user" THEN "query" ELSE "response",
                 sources |-> IF role = "user" THEN "[]" ELSE "result.sources",
                 feedback |-> NULL])

\* an addFeedback that stores the feedback in the content column as well
addFeedbackOverContent(store, m, fb) ==
  [store EXCEPT ![m].feedback = fb, ![m].content = fb]

\* Message.prototype.addFeedback: the feedback field merged and saved
addFeedback(store, m, fb) == [store EXCEPT ![m].feedback = fb]

\* Conversation.createNew: a new row with status 'active' and no title
ConversationCreate(store) == Append(store, [status |-> "active", title |-> NULL])

\* the route's catch: 500 'Internal server error', or an error event on the
\* event stream
RouteCatch(rec) ==
  [rec EXCEPT !.pc = "done",
              !.response = IF rec.route = "stream" THEN "sse error"
                           ELSE "500 Internal server error"]

\* whether `useMCP ? chatServiceMCP : chatService` names a service the
\* module has required: only chatServiceMCP is
ServiceDefined(useMCP) == useMCP

\* POST /query-mcp and POST /stream: the body is read and validated
CallChatRoute(h) ==
  /\ hp[h].pc = "idle"
  /\ \E route \in {"query-mcp", "stream"}, emptyQuery \in BOOLEAN,
        sessionId \in 0..Len(convs) :
       /\ hp' = [hp EXCEPT ![h] =
                IF emptyQuery
                  THEN [IdleHandler EXCEPT !.route = route, !.pc = "done",
                                           !.response = "400 Query is required"]
                  ELSE [IdleHandler EXCEPT !.route = route, !.pc = "getConversation",
                                           !.sessionId = sessionId]]
  /\ UNCHANGED <<messages, convs, nonChatVars>>

\* Conversation.getBySessionId(sessionId), or Conversation.createNew when no
\* session is named or found; /query-mcp then sets a missing title. The
\* lookup is by sessionId alone, so the row comes back with whatever status
\* it holds; `status` keeps the status of the instance the handler loaded
GetConversation(h) ==
  /\ hp[h].pc = "getConversation"
  /\ \/ /\ convs' = convs
        /\ hp' = [hp EXCEPT ![h] = RouteCatch(@)]
     \/ /\ hp[h].sessionId # 0
        /\ convs' = convs
        /\ hp' = [hp EXCEPT ![h].conv = hp[h].sessionId,
                            ![h].status = convs[hp[h].sessionId].status,
                            ![h].pc = IF /\ hp[h].route = "query-mcp"
                                         /\ convs[hp[h].sessionId].title = NULL
                                        THEN "saveTitle" ELSE "history"]
     \/ /\ hp[h].sessionId = 0
        /\ Len(convs) < MaxSessions
        /\ convs' = ConversationCreate(convs)
        /\ hp' = [hp EXCEPT ![h].conv = Len(convs) + 1,
                            ![h].status = "active",
                            ![h].pc = IF hp[h].route = "query-mcp"
                                        THEN "saveTitle" ELSE "history"]
  /\ UNCHANGED <<messages, nonChatVars>>

\* /query-mcp: conversation.title = query.substring(0, 100); save()
SaveTitle(h) ==
  /\ hp[h].pc = "saveTitle"
  /\ \E saveOk \in BOOLEAN :
       IF saveOk
         THEN /\ convs' = [convs EXCEPT ![hp[h].conv].title = "query"]
              /\ hp' = [hp EXCEPT ![h].pc = "history"]
         ELSE /\ convs' = convs
              /\ hp' = [hp EXCEPT ![h] = RouteCatch(@)]
  /\ UNCHANGED <<messages, nonChatVars>>

\* conversation.getMessages(10) mapped to {role, content}: one entry per row,
\* named by the row's id; `preceding` keeps every turn the session held then
ReadHistory(h) ==
  /\ hp[h].pc = "history"
  /\ \E dbOk \in BOOLEAN :
       hp' = [hp EXCEPT ![h] =
                IF dbOk
                  THEN [@ EXCEPT !.history = getMessages(messages, hp[h].conv,
                                                         HistoryLimit),
                                 !.preceding = MessagesOf(messages, hp[h].conv),
                                 !.pc = "addUser"]
                  ELSE RouteCatch(@)]
  /\ UNCHANGED <<messages, convs, nonChatVars>>

\* conversation.addMessage(role, ...): Message.create, then the save of
\* lastMessageAt; a failed save leaves the created message in the table
AddMessage(h, role, field, nextpc, response) ==
  \/ /\ messages' = messages
     /\ hp' = [hp EXCEPT ![h] = RouteCatch(@)]
  \/ /\ Len(messages) < MaxMessages
     /\ messages' = MessageCreate(messages, hp[h].conv, role)
     /\ \E saveOk \in BOOLEAN :
          hp' = [hp EXCEPT ![h] =
                   IF saveOk
                     THEN [@ EXCEPT ![field] = Len(messages) + 1,
                                    !.pc = nextpc, !.response = response]
                     ELSE RouteCatch([@ EXCEPT ![field] = Len(messages) + 1])]

\* await conversation.addMessage("user", query)
AddUserMessage(h) ==
  /\ hp[h].pc = "addUser"
  /\ AddMessage(h, "user", "userMsg", "process", "none")
  /\ UNCHANGED <<convs, nonChatVars>>

\* /query-mcp: chatServiceMCP.processQuery(query, {conversationHistory, ...})
\* and the 500 for a result with success=false; /stream: search,
\* getChunksForResults, streamResponse and the token loop, any throw landing
\* in the route's catch.  buildPrompt puts conversationHistory.slice(-5) in
\* the prompt.  /stream picks `useMCP ? chatServiceMCP : chatService`, and
\* chatService is not defined in routes/chat.js: with useMCP false the line
\* throws a ReferenceError once search and getChunksForResults are through.
ProcessStep(h) ==
  /\ hp[h].pc = "process"
  /\ \E ok \in BOOLEAN, useMCP \in BOOLEAN :
       \* /query-mcp only hands useMCP on to processQuery; /stream picks the
       \* service by it, and this is the one place the request's useMCP is
       \* read, so the handler records it here
       /\ (hp[h].route = "query-mcp" \/ ~ok) => ~useMCP
       /\ hp' = [hp EXCEPT ![h] =
                LET r == [@ EXCEPT !.promptHistory =
                                     SliceLast(hp[h].history, PromptTurns),
                                   !.useMCP = useMCP] IN
                IF r.route = "stream"
                  THEN IF ~ok THEN RouteCatch(r)
                       ELSE IF ~ServiceDefined(useMCP)
                         THEN [RouteCatch(r) EXCEPT
                                 !.promptHistory = <<>>,
                                 !.response = "sse error: chatService is not defined"]
                       ELSE [r EXCEPT !.pc = "addAssistant"]
                ELSE IF ok THEN [r EXCEPT !.pc = "addAssistant"]
                ELSE [r EXCEPT !.pc = "done",
                               !.response = "500 Failed to process query"]]
  /\ UNCHANGED <<messages, convs, nonChatVars>>

\* await conversation.addMessage("assistant", response, {sources, ...}) and
\* the success response
AddAssistantMessage(h) ==
  /\ hp[h].pc = "addAssistant"
  /\ AddMessage(h, "assistant", "asstMsg", "done", "200")
  /\ UNCHANGED <<convs, nonChatVars>>

\* the response is sent; the next request starts from scratch
HandlerReturn(h) ==
  /\ hp[h].pc = "done"
  /\ hp' = [hp EXCEPT ![h] = IdleHandler]
  /\ UNCHANGED <<messages, convs, nonChatVars>>

\* POST /feedback: Message.findByPk(messageId), 404 if absent, else
\* message.addFeedback(feedback)
PostFeedback ==
  /\ \E m \in 1..MaxFeedbackId, saveOk \in BOOLEAN :
       messages' = IF m <= Len(messages) /\ saveOk
                     THEN addFeedback(messages, m, "feedback")
                     ELSE messages
  /\ UNCHANGED <<convs, hp, nonChatVars>>

\* DELETE /conversation/:sessionId: getBySessionId, 404 if absent, else
\* conversation.archive()
DeleteConversation ==
  /\ \E c \in 1..Len(convs), saveOk \in BOOLEAN :
       convs' = IF saveOk THEN [convs EXCEPT ![c].status = "archived"] ELSE convs
  /\ UNCHANGED <<messages, hp, nonChatVars>>

\* the chat routes serve one session that already holds InitTurns messages,
\* user and assistant turns alternating; further sessions are created on
\* request
ChatInit ==
  /\ convs = <<[status |-> "active", title |-> "query"]>>
  /\ messages = [m \in 1..InitTurns |->
                   [conversationId |-> 1,
                    role |-> IF m % 2 = 1 THEN "user" ELSE "assistant",
                    content |-> IF m % 2 = 1 THEN "query" ELSE "response",
                    sources |-> IF m % 2 = 1 THEN "[]" ELSE "result.sources",
                    feedback |-> NULL]]
  /\ hp = [h \in Handlers |-> IdleHandler]
  /\ docs = <<>>
  /\ chunks = <<>>
  /\ vectors = {}
  /\ run = [r \in Runs |-> IdleRun]
  /\ cp = [p \in Chunkers |-> IdleChunker]
  /\ sp = [p \in Scrapers |-> IdleScraper]
  /\ q = IdleQuery
  /\ mcp = NoMCP
  /\ ProcIdle

ChatNext ==
  \/ \E h \in Handlers : CallChatRoute(h)
  \/ \E h \in Handlers : GetConversation(h)
  \/ \E h \in Handlers : SaveTitle(h)
  \/ \E h \in Handlers : ReadHistory(h)
  \/ \E h \in Handlers : AddUserMessage(h)
  \/ \E h \in Handlers : ProcessStep(h)
  \/ \E h \in Handlers : AddAssistantMessage(h)
  \/ \E h \in Handlers : HandlerReturn(h)
  \/ PostFeedback
  \/ DeleteConversation

SpecChat == ChatInit /\ [][ChatNext]_vars

\* ------------------------------------------------------------------------
\* Nothing stored and nothing running: the state in which the script, an
\* operation's external calls and the vector ids are looked at on their own
\* ------------------------------------------------------------------------
Quiescent ==
  /\ ProcIdle
  /\ EmptyLedger
  /\ docs = <<>>
  /\ chunks = <<>>
  /\ vectors = {}
  /\ run = [r \in Runs |-> IdleRun]
  /\ cp = [p \in Chunkers |-> IdleChunker]
  /\ sp = [p \in Scrapers |-> IdleScraper]
  /\ q = IdleQuery
  /\ mcp = NoMCP

\* ------------------------------------------------------------------------
\* The pipeline script (scripts/pipeline.js)
\* ------------------------------------------------------------------------
\* process.argv[2]; no argument runs the default branch, the full pipeline
Commands == {"scrape", "chunk", "embed", "full"}

\* what makes initialize() catch and return false: testConnection() false,
\* syncDatabase() or initializePinecone() throwing
InitErrors == {"testConnection", "syncDatabase", "initializePinecone"}

\* process.exit(code)
Exit(rec, code) == [rec EXCEPT !.pc = "exit", !.exitCode = code]

\* where a rejection of a stage goes: into runPipeline's catch, or, in the
\* single-stage commands whose promise chains have no catch, to the
\* process's unhandledRejection handler
Thrown(rec) ==
  [rec EXCEPT !.pc = IF rec.command = "full" THEN "catch" ELSE "rejected"]

\* node scripts/pipeline.js <command>: every branch starts with initialize()
CliStart ==
  /\ cli.pc = "idle"
  /\ \E c \in Commands : cli' = [cli EXCEPT !.pc = "initialize", !.command = c]
  /\ UNCHANGED nonCliVars

\* initialize() resolves to true, or to false when the database or the index
\* cannot be reached; runPipeline throws on false, the single-stage commands
\* go on with .then() whatever the value
Initialize ==
  /\ cli.pc = "initialize"
  /\ \E err \in InitErrors \cup {"none"} :
       LET ok == err = "none" IN
       cli' = [cli EXCEPT !.initialized = ok,
                          !.initError = err,
                          !.pc = IF cli.command = "full"
                                   THEN IF ok THEN "scrape" ELSE "catch"
                                   ELSE cli.command]
  /\ UNCHANGED nonCliVars

\* runScraping(STRIPE_URLS): scrapeURLs returns its three lists, with or
\* without failed URLs; the scrape command then exits without awaiting
\* closeBrowser
RunScraping ==
  /\ cli.pc = "scrape"
  /\ \E out \in {"ok", "someFailed"} :
       LET rec == [cli EXCEPT !.scrape = out] IN
       cli' = IF cli.command = "scrape" THEN Exit(rec, 0)
              ELSE [rec EXCEPT !.pc = "chunk"]
  /\ UNCHANGED nonCliVars

\* runChunking(): chunkAllPending returns {success: true, ...} or
\* {success: false, error}; getChunkStats rethrows a store error
RunChunking ==
  /\ cli.pc = "chunk"
  /\ \E res \in {"ok", "reported"}, stats \in BOOLEAN :
       LET rec == [cli EXCEPT !.chunk = IF stats THEN res ELSE "threw"] IN
       cli' = IF ~stats THEN Thrown(rec)
              ELSE IF cli.command = "chunk" THEN Exit(rec, 0)
              ELSE [rec EXCEPT !.pc = "embed"]
  /\ UNCHANGED nonCliVars

\* runEmbeddingAndStorage(): processAllPending returns {success: true, ...}
\* or {success: false, error}; getStats rethrows an index error
RunEmbeddingAndStorage ==
  /\ cli.pc = "embed"
  /\ \E res \in {"ok", "reported"}, stats \in BOOLEAN :
       LET rec == [cli EXCEPT !.embed = IF stats THEN res ELSE "threw"] IN
       cli' = IF ~stats THEN Thrown(rec)
              ELSE IF cli.command = "embed" THEN Exit(rec, 0)
              ELSE [rec EXCEPT !.pc = "completed"]
  /\ UNCHANGED nonCliVars

\* runPipeline after the three stages: summary, closeBrowser, exit(0); a
\* failing closeBrowser is caught like a failing stage
PipelineCompleted ==
  /\ cli.pc = "completed"
  /\ \E closed \in BOOLEAN :
       cli' = IF closed THEN Exit(cli, 0) ELSE [cli EXCEPT !.pc = "catch"]
  /\ UNCHANGED nonCliVars

\* runPipeline's catch: closeBrowser, exit(1); a closeBrowser failing here
\* rejects runPipeline's promise
PipelineCatch ==
  /\ cli.pc = "catch"
  /\ \E closed \in BOOLEAN :
       cli' = IF closed THEN Exit(cli, 1) ELSE [cli EXCEPT !.pc = "rejected"]
  /\ UNCHANGED nonCliVars

\* process.on("unhandledRejection"): exit(1)
UnhandledRejection ==
  /\ cli.pc = "rejected"
  /\ cli' = Exit(cli, 1)
  /\ UNCHANGED nonCliVars

CliNext ==
  \/ CliStart
  \/ Initialize
  \/ RunScraping
  \/ RunChunking
  \/ RunEmbeddingAndStorage
  \/ PipelineCompleted
  \/ PipelineCatch
  \/ UnhandledRejection

SpecCli == Quiescent /\ [][CliNext]_vars

\* ------------------------------------------------------------------------
\* External calls of the three long operations and their timeouts
\* ------------------------------------------------------------------------
\* the external services behind the calls
Services == {"web", "gemini", "pinecone", "mcp"}

\* the service each awaited external call talks to
ServiceOf(site) ==
  CASE site \in {"axios.get", "page.goto"} -> "web"
    [] site \in {"embedContent", "generateContent"} -> "gemini"
    [] site \in {"index.upsert", "index.query"} -> "pinecone"
    [] site = "mcpClient.listTools" -> "mcp"

\* the timeout the code passes at a call, in milliseconds; 0: none is passed
\* and nothing bounds the await
TimeoutMs(site) ==
  CASE site = "axios.get" -> 15000
    [] site = "page.goto" -> 30000
    [] OTHER -> 0

\* the first external call of an operation; flag is usePuppeteer for
\* scrapeURLs and useMCP for processQuery
FirstCall(op, flag) ==
  CASE op = "scrapeURLs" -> IF flag THEN "page.goto" ELSE "axios.get"
    [] op = "processAllPending" -> "embedContent"
    [] op = "processQuery" -> "embedContent"

\* the external call that follows a call that succeeded
AfterOk(op, flag, site) ==
  CASE site = "embedContent" ->
         IF op = "processAllPending" THEN "index.upsert" ELSE "index.query"
    [] site = "index.query" ->
         IF flag THEN "mcpClient.listTools" ELSE "generateContent"
    [] site = "mcpClient.listTools" -> "generateContent"
    [] OTHER -> "return"

\* the external call that follows a call that failed: scrapeURL falls back
\* to the rendering fetch, getMCPContext swallows the error, every other
\* failure ends the item with a failure result
AfterError(site) ==
  CASE site = "axios.get" -> "page.goto"
    [] site = "mcpClient.listTools" -> "generateContent"
    [] OTHER -> "return"

\* how an awaited call can settle: a responding service answers or fails,
\* a silent one only lets a timeout passed at the call expire
Settlements(site, silent) ==
  IF ServiceOf(site) \notin silent THEN {"ok", "error"}
  ELSE IF TimeoutMs(site) > 0 THEN {"error"}
  ELSE {}

\* scrapeURLs([url]), processAllPending(1) or processQuery(query) is called
\* while the services in `silent` accept requests and never answer
CallOperation ==
  /\ ext.pc = "idle"
  /\ \E op \in {"scrapeURLs", "processAllPending", "processQuery"},
        flag \in BOOLEAN, silent \in SUBSET Services :
       /\ (op = "processAllPending" => ~flag)
       /\ ext' = [pc |-> "await", op |-> op, flag |-> flag, silent |-> silent,
                  site |-> FirstCall(op, flag), success |-> FALSE]
  /\ UNCHANGED nonExtVars

\* the awaited external call settles and the operation goes on to its next
\* external call or returns
ExternalCall ==
  /\ ext.pc = "await"
  /\ \E outcome \in Settlements(ext.site, ext.silent) :
       LET next == IF outcome = "ok"
                     THEN AfterOk(ext.op, ext.flag, ext.site)
                     ELSE AfterError(ext.site) IN
       ext' = IF next = "return"
                THEN [ext EXCEPT !.pc = "done", !.success = (outcome = "ok")]
                ELSE [ext EXCEPT !.site = next]
  /\ UNCHANGED nonExtVars

ExtNext == CallOperation \/ ExternalCall

SpecExt == Quiescent /\ [][ExtNext]_vars

\* ------------------------------------------------------------------------
\* Vector ids: chunk id -> 'chunk-<id>' -> chunk id
\* ------------------------------------------------------------------------
\* two chunk rows are picked from the store
PickChunks ==
  /\ vid.pc = "idle"
  /\ \E a, b \in 1..MaxChunkId : vid' = [vid EXCEPT !.pc = "picked", !.a = a, !.b = b]
  /\ UNCHANGED nonVidVars

\* upsertVector(chunkId, ...): index.upsert writes the record under
\* `chunk-${chunkId}`, replacing a record of the same id; any number of times
UpsertChunk ==
  /\ vid.pc = "picked"
  /\ \E c \in {vid.a, vid.b} :
       vid' = [vid EXCEPT !.index = @ \cup {VectorId(c)},
                          !.upserted = @ \cup {c}]
  /\ UNCHANGED nonVidVars

\* getChunksForResults on a search hit: the row id parsed from the hit's id
ResolveHit ==
  /\ vid.pc = "picked"
  /\ \E v \in vid.index :
       vid' = [vid EXCEPT !.hit = v, !.back = ChunkIdOf(v)]
  /\ UNCHANGED nonVidVars

VidNext == PickChunks \/ UpsertChunk \/ ResolveHit

SpecVectorId == Quiescent /\ [][VidNext]_vars

\* ------------------------------------------------------------------------
\* The rendering engine (ScraperService.browser)
\* ------------------------------------------------------------------------
\* scrapeWithPuppeteer(url) is called: it starts with initBrowser()
CallScrapeWithPuppeteer(p) ==
  /\ br.pc[p] = "idle"
  /\ br' = [br EXCEPT !.pc[p] = "initBrowser"]
  /\ UNCHANGED nonBrVars

\* initBrowser up to its await: `if (!this.browser)` starts puppeteer.launch,
\* otherwise the stored browser is returned
InitBrowser(p) ==
  /\ br.pc[p] = "initBrowser"
  /\ br' = IF br.browser = 0
             THEN [br EXCEPT !.pc[p] = "launch"]
             ELSE [br EXCEPT !.pc[p] = "newPage", !.mine[p] = br.browser]
  /\ UNCHANGED nonBrVars

\* puppeteer.launch settles: the new browser is assigned to this.browser and
\* returned, or the launch error leaves scrapeWithPuppeteer through its catch
LaunchSettles(p) ==
  /\ br.pc[p] = "launch"
  /\ \E ok \in BOOLEAN :
       IF ok
         THEN /\ br.total < MaxLaunches
              /\ LET b == br.total + 1 IN
                 br' = [br EXCEPT !.browser = b, !.mine[p] = b, !.total = b,
                                  !.launches = @ + 1, !.live = @ \cup {b},
                                  !.pc[p] = "newPage"]
         ELSE br' = [br EXCEPT !.pc[p] = "idle"]
  /\ UNCHANGED nonBrVars

\* browser.newPage() on the browser initBrowser returned: a page is opened in
\* it, or the call throws (a browser that has been closed opens none)
NewPage(p) ==
  /\ br.pc[p] = "newPage"
  /\ \E ok \in BOOLEAN :
       IF ok
         THEN /\ br.mine[p] \in br.live
              /\ br.pages[br.mine[p]] < MaxPages
              /\ br' = [br EXCEPT !.pages[br.mine[p]] = @ + 1, !.pc[p] = "goto"]
         ELSE br' = [br EXCEPT !.pc[p] = "idle", !.mine[p] = 0]
  /\ UNCHANGED nonBrVars

\* setViewport ... page.goto, waitForTimeout, page.content() and then
\* page.close() and `return html`; when one of the awaits before page.close()
\* rejects (navigation error, 30 s timeout) the catch logs and rethrows, and
\* page.close() is not reached
Navigate(p) ==
  /\ br.pc[p] = "goto"
  /\ \E ok \in BOOLEAN :
       IF ok
         THEN /\ br.mine[p] \in br.live
              /\ br' = [br EXCEPT !.pages[br.mine[p]] = @ - 1,
                                  !.pc[p] = "idle", !.mine[p] = 0]
         ELSE br' = [br EXCEPT !.pc[p] = "idle", !.mine[p] = 0]
  /\ UNCHANGED nonBrVars

\* closeBrowser up to its await: `if (this.browser)` starts browser.close(),
\* which closes the browser's pages with it
CloseBrowser ==
  /\ ~br.closing
  /\ br.browser # 0
  /\ br' = [br EXCEPT !.closing = TRUE, !.live = @ \ {br.browser},
                      !.launches = 0, !.pages[br.browser] = 0]
  /\ UNCHANGED nonBrVars

\* closeBrowser after its await: this.browser = null
BrowserClosed ==
  /\ br.closing
  /\ br' = [br EXCEPT !.closing = FALSE, !.browser = 0]
  /\ UNCHANGED nonBrVars

BrowserNext ==
  \/ \E p \in Scrapers : CallScrapeWithPuppeteer(p)
  \/ \E p \in Scrapers : InitBrowser(p)
  \/ \E p \in Scrapers : LaunchSettles(p)
  \/ \E p \in Scrapers : NewPage(p)
  \/ \E p \in Scrapers : Navigate(p)
  \/ CloseBrowser
  \/ BrowserClosed

SpecBrowser == Quiescent /\ [][BrowserNext]_vars

\* ------------------------------------------------------------------------
\* EmbedderService.embedTexts: sub-batches of concurrent embedText calls
\* ------------------------------------------------------------------------
\* constructor: this.batchSize = 10
batchSize == 10

\* what embedText resolves to for a text
Embedding(text) == [of |-> text]

sliceToEnd(arr, start, end) == SubSeq(arr, start + 1, Len(arr))

\* Array.prototype.slice(start, end): the elements at (0-based) positions
\* start .. end - 1 that exist
slice(arr, start, end) == SubSeq(arr, start + 1, Min(end, Len(arr)))

\* embedTexts(texts): embeddings = [], i = 0
CallEmbedTexts ==
  /\ et.pc = "idle"
  /\ \E n \in 0..MaxTexts :
       et' = [IdleEt EXCEPT !.pc = "loop", !.texts = [k \in 1..n |-> k]]
  /\ UNCHANGED nonEtVars

\* the loop test `i < texts.length`: batch = texts.slice(i, i + batchSize) and
\* batch.map(text => this.embedText(text)) starts one call per text of the
\* batch; after the loop `return embeddings`
StartBatch ==
  /\ et.pc = "loop"
  /\ et' = IF et.i < Len(et.texts)
             THEN [et EXCEPT !.pc = "await",
                             !.calls = [k \in DOMAIN slice(et.texts, et.i,
                                                          et.i + batchSize)
                                          |-> "pending"]]
             ELSE [et EXCEPT !.pc = "returned", !.result = {et.embeddings}]
  /\ UNCHANGED nonEtVars

\* one embedText call of the batch settles, whether or not embedTexts is
\* still waiting for it
EmbedTextSettles ==
  /\ \E k \in DOMAIN et.calls, ok \in BOOLEAN :
       /\ et.calls[k] = "pending"
       /\ et' = [et EXCEPT !.calls[k] = IF ok THEN "ok" ELSE "failed"]
  /\ UNCHANGED nonEtVars

\* Promise.all fulfils once every call of the batch has: its values come in
\* the order of the batch; embeddings.push(...batchEmbeddings); the delay
\* is awaited when texts remain, and then i += batchSize
PromiseAllFulfils ==
  /\ et.pc = "await"
  /\ \A k \in DOMAIN et.calls : et.calls[k] = "ok"
  /\ LET batch == slice(et.texts, et.i, et.i + batchSize)
         batchEmbeddings == [k \in DOMAIN batch |-> Embedding(batch[k])]
     IN  et' = [et EXCEPT !.embeddings = @ \o batchEmbeddings,
                          !.pc = IF et.i + batchSize < Len(et.texts)
                                   THEN "delay" ELSE "loop",
                          !.i = IF et.i + batchSize < Len(et.texts)
                                  THEN @ ELSE @ + batchSize]
  /\ UNCHANGED nonEtVars

\* await new Promise(resolve => setTimeout(resolve, 1000)); i += batchSize
DelayElapses ==
  /\ et.pc = "delay"
  /\ et' = [et EXCEPT !.pc = "loop", !.i = @ + batchSize]
  /\ UNCHANGED nonEtVars

\* Promise.all rejects as soon as one call of the batch has: the catch logs
\* and rethrows, the caller receives no value
PromiseAllRejects ==
  /\ et.pc = "await"
  /\ \E k \in DOMAIN et.calls : et.calls[k] = "failed"
  /\ et' = [et EXCEPT !.pc = "threw"]
  /\ UNCHANGED nonEtVars

EmbedTextsNext ==
  \/ CallEmbedTexts
  \/ StartBatch
  \/ EmbedTextSettles
  \/ PromiseAllFulfils
  \/ DelayElapses
  \/ PromiseAllRejects

SpecEmbedTexts == Quiescent /\ [][EmbedTextsNext]_vars

\* ------------------------------------------------------------------------
\* Properties of the embedding stage (SpecEmbed)
\* ------------------------------------------------------------------------
NoRunInFlight == \A r \in Runs : run[r].pc \in {"idle", "done"}

\* C1: every chunk whose embeddingStatus is 'embedded' has exactly one record
\* in the vector index under 'chunk-<chunkId>'.
C1_EmbeddedHasVector ==
  \A c \in 1..Len(chunks) :
    chunks[c].embeddingStatus = "embedded"
      => Cardinality({v \in vectors : v = VectorId(c)}) = 1

\* C2: once no processAllPending call is in flight, no chunk whose
\* embeddingStatus is 'pending' or 'failed' has a record in the vector index
\* under 'chunk-<chunkId>'.
C2_UnembeddedHasNoVector ==
  NoRunInFlight =>
    \A c \in 1..Len(chunks) :
      chunks[c].embeddingStatus \in {"pending", "failed"}
        => VectorId(c) \notin vectors

\* C7: when processAllPending has returned its summary, every chunk it
\* fetched is 'embedded' or 'failed', none is left 'pending'.
C7_BatchLeavesNoPending ==
  \A r \in Runs :
    (run[r].pc = "done" /\ run[r].success) =>
      \A k \in 1..Len(run[r].batch) :
        chunks[run[r].batch[k]].embeddingStatus \in {"embedded", "failed"}

\* ------------------------------------------------------------------------
\* Properties of the chunking stage (SpecChunk)
\* ------------------------------------------------------------------------
\* a chunkDocument call on document d has started and not yet returned
DocInFlight(d) ==
  \E p \in Chunkers : cp[p].pc \notin {"idle", "done"} /\ cp[p].cur = d

\* ids of the chunk rows owned by document d
RowsOf(d) == {c \in 1..Len(chunks) : chunks[c].rawDocumentId = d}

\* every text chunk of document d's cleaned content has a row
AllChunksPersisted(d) ==
  \A k \in 0..(docs[d].nseg - 1) : \E c \in RowsOf(d) : chunks[c].chunkIndex = k

\* C4: a document with content, on which no chunkDocument call is in flight,
\* has status 'processed' if and only if all chunks produced by segmenting its
\* cleaned content have been persisted.
C4_ProcessedIffAllChunks ==
  \A d \in 1..Len(docs) :
    (~DocInFlight(d) /\ docs[d].nseg > 0)
      => (docs[d].status = "processed" <=> AllChunksPersisted(d))

\* C5: whenever chunkDocument has returned success=false, none of the chunks
\* it created for that document remain in the chunk store.
C5_FailureLeavesNoChunks ==
  \A p \in Chunkers :
    (cp[p].pc = "done" /\ cp[p].last \in {"already", "failure"})
      => \A k \in 1..Len(cp[p].created) : cp[p].created[k] \notin 1..Len(chunks)

\* C6: for every document the chunkIndex values of its chunks are exactly
\* 0..n-1, with no gap and no repeated index.
C6_IndicesContiguous ==
  \A d \in 1..Len(docs) :
    /\ {chunks[c].chunkIndex : c \in RowsOf(d)} = 0..(Cardinality(RowsOf(d)) - 1)
    /\ \A c1, c2 \in RowsOf(d) :
         chunks[c1].chunkIndex = chunks[c2].chunkIndex => c1 = c2

\* ------------------------------------------------------------------------
\* Properties of the scraping stage (SpecScrape)
\* ------------------------------------------------------------------------
\* C3: the store holds at most one Document per URL, and a scrapeURL call for
\* a URL that was already present when it was entered performs no fetch and
\* creates no Document; scraping creates no Chunk.
C3_IdempotentPerUrl ==
  /\ \A d1, d2 \in 1..Len(docs) : docs[d1].url = docs[d2].url => d1 = d2
  /\ \A p \in Scrapers :
       (sp[p].pc # "idle" /\ sp[p].present)
         => (sp[p].fetches = 0 /\ sp[p].outcome # "success")
  /\ chunks = <<>>

\* two overlapping calls for one URL both passed urlExists and fetched the
\* page; one created the Document, the other's create was rejected
C3_RaceWitness ==
  \E p, o \in Scrapers :
    /\ p # o
    /\ sp[p].pc \in {"returned", "done"} /\ sp[o].pc \in {"returned", "done"}
    /\ CurUrl(p) = CurUrl(o)
    /\ sp[p].outcome = "success"
    /\ ~sp[o].present /\ sp[o].fetches > 0
    /\ sp[o].outcome = "failed" /\ sp[o].error = "unique"

\* ------------------------------------------------------------------------
\* Properties of the answer engine (SpecQuery)
\* ------------------------------------------------------------------------
\* processQuery has returned a success=true result
Answered == q.pc = "done" /\ q.result.success

\* the minScore filter has run and no hit survived it
NoHitSurvived == q.context # <<>> /\ Len(q.filtered) = 0

\* C8: processQuery(query, {minScore: s}) never returns a source whose score
\* is below s.
C8_NoSourceBelowMinScore ==
  Answered =>
    \A k \in 1..Len(q.result.sources) : q.result.sources[k].score >= q.minScore

\* a hit below minScore was dropped and a hit at or above it is a source
C8_Witness ==
  /\ Answered
  /\ Len(q.result.sources) >= 1
  /\ \E k \in 1..Len(q.hits) : q.hits[k].score < q.minScore

\* C9 as claimed: when no hit survives the minScore filter, the response text
\* of a successful processQuery is the fixed fallback sentence, whatever the
\* language model produced.
C9_AlwaysFallbackSentence ==
  (Answered /\ NoHitSurvived) => q.result.response = FallbackSentence

\* C9 as amended: when no hit survives the minScore filter and generation
\* succeeds, the response text is the language model's text verbatim.
C9_ResponseIsModelText ==
  (q.pc = "done" /\ q.llmText # NULL /\ NoHitSurvived)
    => (q.result.success /\ q.result.response = q.llmText)

\* every hit was filtered out and the model answered with another text than
\* the fallback sentence
C9_Witness ==
  /\ Answered /\ NoHitSurvived
  /\ Len(q.hits) >= 1
  /\ q.result.response # FallbackSentence

\* C10: when no hit survives the minScore filter and generation succeeds,
\* processQuery returns success=true with sources = [] and chunksUsed = 0, and
\* the context given to the model states that no relevant documentation was
\* found.
C10_EmptyResultShape ==
  (q.pc = "done" /\ q.llmText # NULL /\ NoHitSurvived) =>
    /\ q.result.success
    /\ q.result.sources = <<>>
    /\ q.result.chunksUsed = 0
    /\ \E k \in 1..Len(q.context) : q.context[k] = NoDocsContext

\* the index held nothing for the query (or only hits below minScore), MCP
\* context was appended, and the model answered
C10_Witness ==
  /\ q.pc = "done" /\ q.llmText # NULL /\ NoHitSurvived
  /\ q.mcpUsed
  /\ q.result.success /\ q.result.sources = <<>>

\* the result processQuery would return for the same hits and the same
\* language-model outcome when called with useMCP = false
ResultWithoutMCP ==
  IF q.llmText = NULL THEN FailureResult
  ELSE SuccessResult(q.llmText, q.filtered, FALSE)

\* C11: a failure or unavailability of the capability provider (not
\* connected, read_file missing, listTools or callTool throwing, no content,
\* empty text) never changes the answer: the context given to the model and
\* the returned result are those of a call with useMCP = false, and mcpUsed is
\* true only when the provider returned non-empty text.
C11_ProviderFailureInvisible ==
  /\ q.mcpUsed => q.mcpOutcome = "text"
  /\ (q.pc = "generate" /\ q.mcpOutcome # "text")
       => q.context = buildContext(q.filtered)
  /\ (q.pc = "done" /\ q.mcpOutcome # "text") => q.result = ResultWithoutMCP

\* callTool threw during a query with surviving hits, and the query was
\* answered with its sources
C11_Witness ==
  /\ Answered /\ q.useMCP
  /\ q.mcpOutcome = "callThrows"
  /\ Len(q.result.sources) >= 1

\* C12: processQuery always returns a result object; a failure of the query
\* embedding, the vector search, the chunk resolution or the generation
\* yields success=false with the fixed apology sentence as response and no
\* sources.
C12_FailureIsApologyResult ==
  q.pc = "done" =>
    /\ q.result.success \in BOOLEAN
    /\ q.failure # "none" => ~q.result.success
    /\ ~q.result.success =>
         (q.result.response = ApologySentence /\ q.result.sources = NULL)

\* generation failed after hits had survived the filter and MCP context had
\* been appended
C12_Witness ==
  /\ q.pc = "done" /\ q.failure = "generateContent"
  /\ Len(q.filtered) >= 1 /\ q.mcpUsed
  /\ ~q.result.success

\* ------------------------------------------------------------------------
\* No automatic retry (SpecEmbed)
\* ------------------------------------------------------------------------
\* C13: once a chunk is 'failed', no step of a processAllPending run changes
\* its status: the chunk stays 'failed' (the embedding stage has no operation
\* that names a single chunk and re-triggers it).
C13_FailedStaysFailed ==
  [][\A c \in 1..Len(chunks) :
       chunks[c].embeddingStatus = "failed"
         => chunks'[c].embeddingStatus = "failed"]_vars

\* ------------------------------------------------------------------------
\* Properties of the conversation ledger and the chat routes (SpecChat)
\* ------------------------------------------------------------------------
\* the prompt of request h has been built (buildPrompt ran)
PromptBuilt(h) ==
  \/ hp[h].pc = "addAssistant"
  \/ hp[h].response \in {"200", "500 Failed to process query"}

\* C14: the history placed in the prompt for a query is the most recent
\* turns of the session that precede the query, at most the last 5, in
\* chronological order, whatever the length of the session.
C14_PromptHistoryIsLatest ==
  \A h \in Handlers :
    PromptBuilt(h)
      => hp[h].promptHistory = SliceLast(hp[h].preceding, PromptTurns)

\* C15: the message ledger is append-only: no step of a query, a stream, a
\* feedback or an archive request deletes a message or changes its role,
\* content, sources or conversationId; addFeedback changes the feedback
\* field only.
C15_LedgerAppendOnly ==
  [][/\ Len(messages') >= Len(messages)
     /\ \A m \in 1..Len(messages) :
          /\ messages'[m].role = messages[m].role
          /\ messages'[m].content = messages[m].content
          /\ messages'[m].sources = messages[m].sources
          /\ messages'[m].conversationId = messages[m].conversationId]_vars

\* a message carries feedback, its conversation is archived, and a /stream
\* request has appended its user and assistant turns since
C15_Witness ==
  /\ messages[1].feedback # NULL
  /\ convs[messages[1].conversationId].status = "archived"
  /\ \E h \in Handlers :
       /\ hp[h].route = "stream" /\ hp[h].asstMsg > InitTurns
       /\ messages[hp[h].asstMsg].role = "assistant"

\* C16: every /query-mcp request that passed validation and met no store
\* error has, when it is answered, appended the user turn and then the
\* assistant turn to its session's ledger.
C16_UserThenAssistantTurn ==
  \A h \in Handlers :
    (/\ hp[h].pc = "done" /\ hp[h].route = "query-mcp"
     /\ hp[h].response \notin {"400 Query is required",
                               "500 Internal server error"})
      => /\ hp[h].userMsg # 0 /\ hp[h].asstMsg > hp[h].userMsg
         /\ messages[hp[h].userMsg].role = "user"
         /\ messages[hp[h].asstMsg].role = "assistant"
         /\ messages[hp[h].asstMsg].conversationId = hp[h].conv

\* ------------------------------------------------------------------------
\* chunkDocument on a processed document (SpecChunk)
\* ------------------------------------------------------------------------
\* C17: a chunkDocument call on a document whose status is already
\* 'processed' is a no-op: none of its steps changes the status of a document
\* or the chunk store.
C17_ProcessedIsNoOp ==
  [][\A p \in Chunkers :
       (cp[p].onProcessed /\ cp[p].pc \notin {"idle", "done"} /\ cp'[p] # cp[p])
         => (docs' = docs /\ chunks' = chunks)]_vars

\* ------------------------------------------------------------------------
\* Fetch paths, rendering and batches of the scraper (SpecScrape)
\* ------------------------------------------------------------------------
\* the order of the fetch paths in every scrapeURL call: the rendering fetch
\* is called with usePuppeteer=false only after the static fetch has failed,
\* and the static fetch is never called with usePuppeteer=true
FetchOrder ==
  \A p \in Scrapers :
    /\ (~sp[p].usePuppeteer /\ (sp[p].pc = "puppeteer" \/ sp[p].puppeteer # "none"))
         => sp[p].axios = "failed"
    /\ sp[p].usePuppeteer => (sp[p].pc # "axios" /\ sp[p].axios = "none")

\* C18 as claimed: the fetch paths are tried in order, and a scrape is
\* reported failed only when every attempted fetch path failed, in which
\* case no Document is created.
C18_FailedOnlyWhenFetchesFailed ==
  /\ FetchOrder
  /\ \A p \in Scrapers :
       sp[p].outcome = "failed"
         => /\ sp[p].axios # "ok" /\ sp[p].puppeteer # "ok"
            /\ sp[p].document = 0

\* C18 as amended: the fetch paths are tried in order; a scrape is reported
\* failed when every attempted fetch path failed or when the store rejected
\* the URL check or the creation of the Document after a successful fetch;
\* a scrape reported failed has created no Document.
C18_FailedByFetchOrStore ==
  /\ FetchOrder
  /\ \A p \in Scrapers :
       sp[p].outcome = "failed"
         => /\ sp[p].document = 0
            /\ \/ /\ sp[p].error = "fetch"
                  /\ sp[p].puppeteer = "failed" /\ sp[p].axios # "ok"
               \/ /\ sp[p].error \in {"db", "validation", "unique"}
                  /\ \/ sp[p].fetches = 0
                     \/ sp[p].axios = "ok" \/ sp[p].puppeteer = "ok"
  /\ \A p \in Scrapers :
       (sp[p].axios = "failed" /\ sp[p].puppeteer = "failed")
         => (sp[p].outcome = "failed" /\ sp[p].error = "fetch")

\* with usePuppeteer=false the static fetch failed, the rendering fetch
\* failed after it, and the scrape is reported failed
C18_Witness ==
  \E p \in Scrapers :
    /\ ~sp[p].usePuppeteer
    /\ sp[p].axios = "failed" /\ sp[p].puppeteer = "failed"
    /\ sp[p].outcome = "failed" /\ sp[p].document = 0

\* C19: at most one fetch-via-rendering call (scrapeWithPuppeteer) is in
\* progress at any time.
C19_OneRenderingAtATime ==
  Cardinality({p \in Scrapers : sp[p].pc = "puppeteer"}) <= 1

\* C20: scrapeURLs attempts every position of its list once, in list order,
\* never stops at a failed item, and files each attempted position under
\* exactly one of successful, failed and skipped: the three counts sum to
\* the number of positions attempted, and to the list's length on return.
C20_BatchPartition ==
  /\ [](\A p \in Scrapers :
         LET n == sp[p].successful + sp[p].failed + sp[p].skipped IN
         /\ sp[p].pc \in {"returned", "done"} => n = sp[p].pos
         /\ sp[p].pc \in {"check", "axios", "puppeteer", "create"} => n = sp[p].pos - 1
         /\ sp[p].pc = "done" => sp[p].pos = Len(sp[p].queue))
  /\ [][\A p \in Scrapers :
         sp'[p].pos # sp[p].pos
           => \/ sp'[p].pos = sp[p].pos + 1 /\ sp'[p].queue = sp[p].queue
              \/ sp[p].pc \in {"idle", "done"}]_vars

\* a batch whose first URL failed went on to its last URL, which succeeded,
\* and has returned
C20_Witness ==
  \E p \in Scrapers :
    /\ sp[p].pc = "done" /\ Len(sp[p].queue) = MaxBatch
    /\ sp[p].failed >= 1 /\ sp[p].outcome = "success"
    /\ sp[p].successful + sp[p].failed + sp[p].skipped = MaxBatch

\* ------------------------------------------------------------------------
\* Batches of the chunker (SpecChunk)
\* ------------------------------------------------------------------------
\* C21: a chunkAllPending call that fetched pending documents is never
\* aborted: when it returns, it reports success=true and every fetched
\* document was attempted, processed + failed being the number fetched.
C21_BatchNeverAborted ==
  \A p \in Chunkers :
    (cp[p].mode = "all" /\ cp[p].pc = "done" /\ Len(cp[p].queue) > 0)
      => /\ cp[p].success
         /\ cp[p].pos = Len(cp[p].queue)
         /\ cp[p].successful + cp[p].failed = Len(cp[p].queue)

C23_MalformedUrlNotFetched ==
  \A p \in Scrapers :
    (sp[p].pc # "idle" /\ ~isUrl(CurUrl(p)))
      => /\ sp[p].pc \notin {"axios", "puppeteer"}
         /\ sp[p].fetches = 0
         /\ sp[p].document = 0

\* C26: the pipeline script exits with code 0 only when initialization and
\* every stage of the selected command succeeded, and with a non-zero code
\* when a stage threw, when initialization failed, or when a stage reported
\* failure through its result (success: false).
StageFailed(o) == o \in {"reported", "threw"}

C26_ExitZeroOnlyOnSuccess ==
  cli.pc = "exit" =>
    (cli.exitCode = 0 <=>
       /\ cli.initialized
       /\ ~StageFailed(cli.scrape)
       /\ ~StageFailed(cli.chunk)
       /\ ~StageFailed(cli.embed))

\* C27: no operation blocks indefinitely: whichever external services never
\* respond, an operation waiting on an external call can always go on (the
\* call has a timeout path), so scrapeURLs, processAllPending and
\* processQuery terminate.
C27_NoIndefiniteBlock ==
  ext.pc = "await" => ENABLED ExternalCall

\* C28: processAllPending(limit) processes at most `limit` chunks, takes only
\* chunks that were 'pending' when fetched, oldest first (no older pending
\* chunk is passed over), and handles them one at a time in that order: it
\* moves to the next chunk only in the step that ends the current chunk's
\* embed / upsert / status update.
InChunk(r) == run[r].pc \in {"embed", "upsert", "markEmbedded", "markFailed"}

C28_AtMostLimitOldestFirstOneAtATime ==
  /\ [](\A r \in Runs :
          /\ Len(run[r].batch) <= run[r].limit
          /\ \A j, k \in 1..Len(run[r].batch) :
               j < k => run[r].batch[j] < run[r].batch[k]
          /\ InChunk(r) => run[r].i \in 1..Len(run[r].batch))
  /\ [][\A r \in Runs :
          /\ (run[r].pc = "idle" /\ run'[r].pc = "embed") =>
               /\ run'[r].i = 1
               /\ \A j \in 1..Len(run'[r].batch) :
                    chunks[run'[r].batch[j]].embeddingStatus = "pending"
               /\ \A c \in 1..Len(chunks) :
                    (/\ chunks[c].embeddingStatus = "pending"
                     /\ c < run'[r].batch[Len(run'[r].batch)])
                      => \E j \in 1..Len(run'[r].batch) : run'[r].batch[j] = c
          /\ (InChunk(r) /\ InChunk(r)' /\ run'[r].i # run[r].i) =>
               /\ run'[r].i = run[r].i + 1
               /\ run[r].pc \in {"upsert", "markEmbedded", "markFailed"}
               /\ run'[r].pc = "embed"
          /\ (InChunk(r) /\ InChunk(r)') => run'[r].batch = run[r].batch]_vars

\* a run with limit 2 has finished its first chunk and started on the second
C28_Witness ==
  \E r \in Runs :
    /\ run[r].pc = "embed"
    /\ run[r].i = 2
    /\ run[r].limit = 2
    /\ chunks[run[r].batch[1]].embeddingStatus = "embedded"

\* C29: the vector id is an injective function of the chunk id and round-trips:
\* a hit 'chunk-<id>' is parsed back to exactly <id>, distinct chunks never
\* share a vector id, and however often a chunk is processed the index holds at
\* most one record for it.
C29_VectorIdRoundTrip ==
  /\ vid.hit # <<>> => (vid.back \in vid.upserted /\ VectorId(vid.back) = vid.hit)
  /\ Cardinality(vid.index) = Cardinality(vid.upserted)
  /\ \A c \in vid.upserted :
       Cardinality({v \in vid.index : ChunkIdOf(v) = c}) = 1

\* two chunks, one id a prefix of the other's digits, were both upserted and
\* the longer one came back from a hit
C29_Witness ==
  /\ vid.upserted = {10, 100}
  /\ vid.hit = VectorId(100)
  /\ vid.back = 100

\* C30: the rendering engine is a singleton: between two closeBrowser calls at
\* most one browser is launched, however concurrent scrapeWithPuppeteer calls
\* interleave, so that no launched browser is alive beside the stored one.
C30_AtMostOneBrowser ==
  /\ br.launches <= 1
  /\ Cardinality(br.live) <= 1

\* C31: when the embedding returned for a chunk does not have exactly 768
\* values, the run upserts no vector record for that chunk and its next step
\* marks that chunk, and no other, 'failed', counts it as failed and goes on
\* with the rest of the batch (unless the store rejects that very save).
DimensionMismatch(r) ==
  run[r].pc = "markFailed" /\ run[r].dim \notin {0, EmbeddingDimension}

C32_ProcessedIsAbsorbing ==
  [][\A d \in 1..Len(docs) :
       docs[d].status = "processed" => docs'[d].status = "processed"]_vars

\* C33: a chunk's 'embedded' status is absorbing: no step of any
\* processAllPending run, however the runs overlap, moves a chunk that is
\* 'embedded' to 'failed' or 'pending'.
C33_EmbeddedIsAbsorbing ==
  [][\A c \in 1..Len(chunks) :
       chunks[c].embeddingStatus = "embedded"
         => chunks'[c].embeddingStatus \notin {"failed", "pending"}]_vars

\* C34: when query embedding, vector search, resolution and generation all
\* succeed, processQuery returns success=true with one source per hit that
\* passed the score filter, also when such a hit resolves to no chunk row.
C34_SourcePerFilteredHit ==
  (q.pc = "done" /\ q.failure = "none" /\ q.llmText # NULL) =>
    /\ q.result.success
    /\ Len(q.result.sources) = Len(q.filtered)

\* C35: every /stream request with a non-empty query, with useMCP true or left
\* at false, whose store and external calls all answer, has appended the
\* user message and then one assistant message and ended with [DONE].
C35_StreamEndsWithDone ==
  \A h \in Handlers :
    (/\ hp[h].pc = "done"
     /\ hp[h].route = "stream"
     /\ hp[h].response \notin {"400 Query is required", "sse error"})
      => /\ hp[h].response = "200"
         /\ hp[h].userMsg # 0
         /\ hp[h].asstMsg > hp[h].userMsg

\* C36: in the pipeline script no stage runs unless initialization succeeded,
\* and the stages run in the order scrape, chunk, embed, each after the
\* previous one has returned; a single-stage command runs its stage alone.
C36_StagesAfterInitInOrder ==
  /\ (cli.scrape # "none" \/ cli.chunk # "none" \/ cli.embed # "none")
       => cli.initialized
  /\ cli.command = "full" =>
       /\ cli.chunk # "none" => cli.scrape # "none"
       /\ cli.embed # "none" => cli.chunk \notin {"none", "threw"}
  /\ cli.command = "scrape" => (cli.chunk = "none" /\ cli.embed = "none")
  /\ cli.command = "chunk" => (cli.scrape = "none" /\ cli.embed = "none")
  /\ cli.command = "embed" => (cli.scrape = "none" /\ cli.chunk = "none")

\* C37: no query or stream request that looked its session up after the
\* conversation was archived appends a message to it (addMessage is also the
\* only writer of lastMessageAt): a handler that has stored a message loaded
\* a conversation that was not archived
C37_ArchivedConversationIsClosed ==
  \A h \in Handlers :
    (hp[h].userMsg # 0 \/ hp[h].asstMsg # 0) => hp[h].status # "archived"

\* C38: every page a scrapeWithPuppeteer call opens is closed before the call
\* returns or throws: whenever no call is running, no page is open.
C38_NoPageLeftOpen ==
  (\A p \in Scrapers : br.pc[p] = "idle") =>
    \A b \in 1..MaxLaunches : br.pages[b] = 0

\* C39: embedTexts returns one embedding per input text in input order; its
\* embedText calls run in sub-batches of at most batchSize calls, the calls
\* of a sub-batch being those of consecutive texts, and a sub-batch is
\* started only when every call of the one before has fulfilled; when a call
\* has failed the whole call does not return, and a call that threw handed
\* the caller no value.
C39_EmbedTextsBatchedInOrder ==
  /\ [](/\ et.pc = "returned" =>
             et.result = {[k \in 1..Len(et.texts) |-> Embedding(et.texts[k])]}
        /\ Len(et.calls) <= batchSize
        /\ (\E k \in DOMAIN et.calls : et.calls[k] = "failed") =>
             (et.pc \in {"await", "threw"} /\ et.result = {})
        /\ et.pc = "threw" => et.result = {})
  /\ [][(et.pc = "loop" /\ et'.pc = "await") =>
          /\ \A k \in DOMAIN et.calls : et.calls[k] = "ok"
          /\ Len(et.embeddings) = et.i
          /\ Len(et'.calls) = Min(batchSize, Len(et.texts) - et.i)]_vars

\* a call with more texts than one sub-batch holds has returned
C39_Witness ==
  /\ et.pc = "returned"
  /\ Len(et.texts) > batchSize
  /\ Len(et.embeddings) = Len(et.texts)

====
